---- MODULE Spec2Model ----
(***************************************************************************)
(* Model of src/swap.rs: the SwapType value type and the parser            *)
(* <SwapString as FromStr>::from_str.                                      *)
(*                                                                         *)
(* Strings are sequences of one-character strings.  A u64 is a sequence of *)
(* 8 base-256 limbs, least significant first, so that the full 64-bit      *)
(* range, decimal overflow and the overflow of amount * price are          *)
(* represented exactly.                                                    *)
(***************************************************************************)
EXTENDS Integers, Sequences, FiniteSets, TLC

\* ------------------------------------------------------------------------
\* Bounds of the model
\* ------------------------------------------------------------------------
MaxParts == 7
MaxFlips == 3
HashSlack == 2

\* ------------------------------------------------------------------------
\* u64 arithmetic
\* ------------------------------------------------------------------------
Limbs == 8
LimbBase == 256

Zero64 == [i \in 1..Limbs |-> 0]

Max64 == [i \in 1..Limbs |-> LimbBase - 1]

RECURSIVE ShiftLimbs(_, _)
ShiftLimbs(n, k) == IF k = 0 THEN n ELSE ShiftLimbs(n \div LimbBase, k - 1)

\* the u64 with the value of the small natural n
U64(n) == [i \in 1..Limbs |-> ShiftLimbs(n, i - 1) % LimbBase]

IsZero64(x) == \A i \in 1..Limbs : x[i] = 0

\* x * m + a for small m and a: the carry into limb i
RECURSIVE MulAddCarry(_, _, _, _)
MulAddCarry(x, m, a, i) ==
    IF i = 1 THEN a
    ELSE (x[i - 1] * m + MulAddCarry(x, m, a, i - 1)) \div LimbBase

\* u64::checked_mul(m) followed by u64::checked_add(a), for small m and a
CheckedMulAdd(x, m, a) ==
    [val  |-> [i \in 1..Limbs |-> (x[i] * m + MulAddCarry(x, m, a, i)) % LimbBase],
     over |-> MulAddCarry(x, m, a, Limbs + 1) # 0]

\* sum of the limb products a[i] * b[j] with i + j = k + 1, for i >= from
RECURSIVE ColSum(_, _, _, _)
ColSum(a, b, k, from) ==
    IF from > Limbs THEN 0
    ELSE (IF k + 1 - from \in 1..Limbs THEN a[from] * b[k + 1 - from] ELSE 0)
         + ColSum(a, b, k, from + 1)

RECURSIVE ColCarry(_, _, _)
ColCarry(a, b, k) ==
    IF k = 1 THEN 0
    ELSE (ColSum(a, b, k - 1, 1) + ColCarry(a, b, k - 1)) \div LimbBase

\* the exact mathematical product of two u64, as 16 limbs
FullProduct(a, b) ==
    [k \in 1..(2 * Limbs) |-> (ColSum(a, b, k, 1) + ColCarry(a, b, k)) % LimbBase]

\* does the product of two u64 exceed 2^64 - 1
MulOverflows(a, b) == \E k \in (Limbs + 1)..(2 * Limbs) : FullProduct(a, b)[k] # 0

\* the product modulo 2^64
WrappingMul(a, b) == [i \in 1..Limbs |-> FullProduct(a, b)[i]]

\* a u64 widened to 16 limbs, to compare with an exact product
Widen(x) == [k \in 1..(2 * Limbs) |-> IF k <= Limbs THEN x[k] ELSE 0]

\* ------------------------------------------------------------------------
\* str::parse::<u64>
\* ------------------------------------------------------------------------
Digits == {"0", "1", "2", "3", "4", "5", "6", "7", "8", "9"}

DigitVal(c) ==
    CASE c = "0" -> 0 [] c = "1" -> 1 [] c = "2" -> 2 [] c = "3" -> 3
      [] c = "4" -> 4 [] c = "5" -> 5 [] c = "6" -> 6 [] c = "7" -> 7
      [] c = "8" -> 8 [] c = "9" -> 9

RECURSIVE ParseDigits(_, _, _)
ParseDigits(ds, i, acc) ==
    IF i > Len(ds) THEN [ok |-> TRUE, val |-> acc]
    ELSE IF ds[i] \notin Digits THEN [ok |-> FALSE, err |-> "InvalidDigit"]
    ELSE LET r == CheckedMulAdd(acc, 10, DigitVal(ds[i]))
         IN  IF r.over THEN [ok |-> FALSE, err |-> "PosOverflow"]
             ELSE ParseDigits(ds, i + 1, r.val)

\* ParseU64 with a leading '-' skipped like a leading '+'
ParseU64SignSkipped(s) ==
    IF Len(s) = 0 THEN [ok |-> FALSE, err |-> "Empty"]
    ELSE IF Len(s) = 1 /\ s[1] \in {"+", "-"}
         THEN [ok |-> FALSE, err |-> "InvalidDigit"]
    ELSE ParseDigits(IF s[1] \in {"+", "-"} THEN Tail(s) ELSE s, 1, Zero64)

ParseU64(s) ==
    IF Len(s) = 0 THEN [ok |-> FALSE, err |-> "Empty"]
    ELSE IF Len(s) = 1 /\ s[1] \in {"+", "-"}
         THEN [ok |-> FALSE, err |-> "InvalidDigit"]
    ELSE ParseDigits(IF s[1] = "+" THEN Tail(s) ELSE s, 1, Zero64)

\* ------------------------------------------------------------------------
\* str::split('/') and the iterator over its items
\* ------------------------------------------------------------------------
\* the position of the k-th '/' of s; 0 for k = 0, Len(s) + 1 past the last
SepPos(s, k) ==
    LET seps == {i \in 1..Len(s) : s[i] = "/"}
    IN  IF k = 0 THEN 0
        ELSE IF k > Cardinality(seps) THEN Len(s) + 1
        ELSE CHOOSE p \in seps : Cardinality({q \in seps : q <= p}) = k

\* the items of s.split('/'): the text between consecutive separators
Split(s) ==
    LET n == Cardinality({i \in 1..Len(s) : s[i] = "/"}) + 1
    IN  [k \in 1..n |-> SubSeq(s, SepPos(s, k - 1) + 1, SepPos(s, k) - 1)]

\* the n-th call of iter.next()
IterNext(parts, n) ==
    IF n <= Len(parts) THEN [some |-> TRUE, val |-> parts[n]]
    ELSE [some |-> FALSE]

\* ------------------------------------------------------------------------
\* The decoders of the contract id and of the payment hash
\* ------------------------------------------------------------------------
ContractIdA == <<"r", "g", "b", ":", "A">>
ContractIdB == <<"r", "g", "b", ":", "B">>

\* the textual contract ids that decode
KnownContractIds == {ContractIdA, ContractIdB}

ContractIdFromStr(t) ==
    IF t \in KnownContractIds THEN [ok |-> TRUE, val |-> [contract |-> t[5]]]
    ELSE [ok |-> FALSE]

HexChars == Digits \union {"a", "b", "c", "d", "e", "f", "A", "B", "C", "D", "E", "F"}

HexVal(c) ==
    CASE c \in Digits -> DigitVal(c)
      [] c \in {"a", "A"} -> 10 [] c \in {"b", "B"} -> 11 [] c \in {"c", "C"} -> 12
      [] c \in {"d", "D"} -> 13 [] c \in {"e", "E"} -> 14 [] c \in {"f", "F"} -> 15

\* What the decoder does with a hex text of odd length.  swap.rs does not
\* test the length of the text and the codec is only known as
\* decode(text) -> bytes | DecodeError, so both behaviours of a hex decoder
\* that reads two digits per byte are possible: "reject" the text, or
\* "drop" the dangling digit.
OddTails == {"reject", "drop"}

HexStrToVec(h, odd_tail) ==
    IF \/ \E i \in 1..Len(h) : h[i] \notin HexChars
       \/ Len(h) % 2 # 0 /\ odd_tail = "reject"
    THEN [some |-> FALSE]
    ELSE [some |-> TRUE,
          val  |-> [i \in 1..(Len(h) \div 2) |->
                       16 * HexVal(h[2 * i - 1]) + HexVal(h[2 * i])]]

HashBytes == 32

\* Vec<u8>::try_into::<[u8; 32]>().ok()
TryInto32(vec) ==
    IF Len(vec) = HashBytes THEN [some |-> TRUE, val |-> vec]
    ELSE [some |-> FALSE]

\* hex_str_to_vec(..).and_then(|vec| vec.try_into().ok()).map(PaymentHash)
PaymentHashFromHex(h, odd_tail) ==
    LET v == HexStrToVec(h, odd_tail)
    IN  IF v.some THEN TryInto32(v.val) ELSE [some |-> FALSE]

\* ------------------------------------------------------------------------
\* SwapType
\* ------------------------------------------------------------------------
BuyAsset(asset_amount, amt_msat) ==
    [variant |-> "BuyAsset", asset_amount |-> asset_amount, amt_msat |-> amt_msat]

SellAsset(asset_amount, amt_msat) ==
    [variant |-> "SellAsset", asset_amount |-> asset_amount, amt_msat |-> amt_msat]

Display(d) ==
    IF d.variant = "BuyAsset" THEN <<"b", "u", "y">> ELSE <<"s", "e", "l", "l">>

\* opposite with the BuyAsset arm returning BuyAsset
oppositeBuyKept(d) == BuyAsset(d.asset_amount, d.amt_msat)

\* opposite with the two quantities exchanged
oppositeSwapped(d) ==
    IF d.variant = "BuyAsset" THEN SellAsset(d.amt_msat, d.asset_amount)
    ELSE BuyAsset(d.amt_msat, d.asset_amount)

opposite(d) ==
    IF d.variant = "BuyAsset" THEN SellAsset(d.asset_amount, d.amt_msat)
    ELSE BuyAsset(d.asset_amount, d.amt_msat)

is_buy(d) == d.variant = "BuyAsset"

amt_msat(d) == d.amt_msat

asset_amount(d) == d.asset_amount

\* ------------------------------------------------------------------------
\* SwapString::from_str
\* ------------------------------------------------------------------------
Ok(contract_id, swap_type, expiry, payment_hash) ==
    [kind |-> "Ok", contract_id |-> contract_id, swap_type |-> swap_type,
     expiry |-> expiry, payment_hash |-> payment_hash]

Err(msg) == [kind |-> "Err", msg |-> msg]

\* the abort of an arithmetic overflow when overflow checks are compiled in
Panic(msg) == [kind |-> "Panic", msg |-> msg]

\* the field count test without the test for a leftover item
MissingPartOnly(parts) == ~IterNext(parts, 6).some

\* payment_hash.is_none() || iter.next().is_some()
WrongNumberOfParts(parts) == ~IterNext(parts, 6).some \/ IterNext(parts, 7).some

\* the positivity test without the expiry
NotPositiveAmounts(amount, price, expiry) == IsZero64(amount) \/ IsZero64(price)

\* amount == 0 || price == 0 || expiry == 0
NotPositive(amount, price, expiry) ==
    IsZero64(amount) \/ IsZero64(price) \/ IsZero64(expiry)

Buy == <<"b", "u", "y">>
Sell == <<"s", "e", "l", "l">>

\* overflow_checks: whether the build panics on arithmetic overflow (the
\* default of a debug build) or wraps (the default of a release build);
\* odd_tail: what hex_str_to_vec does with a text of odd length
FromStr(s, overflow_checks, odd_tail) ==
    LET parts == Split(s)
    IN  IF WrongNumberOfParts(parts) THEN Err("Wrong number of parts")
        ELSE
        LET amount       == ParseU64(IterNext(parts, 1).val)
            contract_id  == ContractIdFromStr(IterNext(parts, 2).val)
            side         == IterNext(parts, 3).val
            price        == ParseU64(IterNext(parts, 4).val)
            expiry       == ParseU64(IterNext(parts, 5).val)
            payment_hash == PaymentHashFromHex(IterNext(parts, 6).val, odd_tail)
        IN  IF \/ ~amount.ok
               \/ ~contract_id.ok
               \/ ~price.ok
               \/ ~expiry.ok
               \/ ~payment_hash.some
            THEN Err("Unable to parse")
            ELSE IF NotPositive(amount.val, price.val, expiry.val)
            THEN Err("Amount, price and expiry should be positive")
            ELSE IF overflow_checks /\ MulOverflows(amount.val, price.val)
            THEN Panic("attempt to multiply with overflow")
            ELSE
            LET product == WrappingMul(amount.val, price.val)
            IN  IF side = Buy
                THEN Ok(contract_id.val, BuyAsset(amount.val, product),
                        expiry.val, payment_hash.val)
                ELSE IF side = Sell
                THEN Ok(contract_id.val, SellAsset(amount.val, product),
                        expiry.val, payment_hash.val)
                ELSE Err("Invalid swap type")

\* ------------------------------------------------------------------------
\* The input strings
\* ------------------------------------------------------------------------
RECURSIVE Rep(_, _)
Rep(c, n) == IF n = 0 THEN <<>> ELSE <<c>> \o Rep(c, n - 1)

MaxU64Text ==
    <<"1", "8", "4", "4", "6", "7", "4", "4", "0", "7",
      "3", "7", "0", "9", "5", "5", "1", "6", "1", "5">>

\* 2^64
OverU64Text ==
    <<"1", "8", "4", "4", "6", "7", "4", "4", "0", "7",
      "3", "7", "0", "9", "5", "5", "1", "6", "1", "6">>

\* 2^32
Pow32Text == <<"4", "2", "9", "4", "9", "6", "7", "2", "9", "6">>

AmountToks ==
    {<<>>, <<"0">>, <<"1", "0", "0">>, <<"+", "5">>, <<"-", "1">>, <<"+">>,
     Pow32Text, MaxU64Text}

ContractIdToks == {ContractIdA, <<"b", "t", "c">>, <<>>}

SideToks ==
    {Buy, Sell, <<"B", "u", "y">>, <<" ", "b", "u", "y">>,
     <<"s", "e", "l", "l", " ">>, <<>>}

PriceToks ==
    {<<"0">>, <<"5">>, <<"2">>, Pow32Text, <<"1", "x">>, OverU64Text}

ExpiryToks == {<<"0">>, <<"6", "0", "0">>, <<" ", "6">>, <<>>}

HexDigitsLen == 2 * HashBytes

HexPattern ==
    <<"0", "1", "2", "3", "4", "5", "6", "7", "8", "9", "a", "b", "c", "D", "E", "F">>

MixedHash == [i \in 1..HexDigitsLen |-> HexPattern[((i - 1) % 16) + 1]]

NonHexHash == [i \in 1..HexDigitsLen |-> IF i = 7 THEN "g" ELSE "a"]

HashToks ==
    {Rep("a", n) : n \in (HexDigitsLen - HashSlack)..(HexDigitsLen + HashSlack)}
    \union {<<>>, MixedHash, NonHexHash}

ExtraToks == {<<>>, <<"x">>}

RECURSIVE Join(_)
Join(fields) ==
    IF Len(fields) = 0 THEN <<>>
    ELSE IF Len(fields) = 1 THEN fields[1]
    ELSE fields[1] \o <<"/">> \o Join(Tail(fields))

SixFields ==
    AmountToks \X ContractIdToks \X SideToks \X PriceToks \X ExpiryToks \X HashToks

\* field sequences with which the inputs of more than six fields start
LongBases ==
    {<<a, ContractIdA, Buy, <<"5">>, <<"6", "0", "0">>, h>> :
        a \in {<<"1", "0", "0">>, <<"-", "1">>}, h \in {MixedHash, <<>>}}

RECURSIVE Extras(_)
Extras(n) ==
    IF n = 0 THEN {<<>>}
    ELSE {<<>>} \union {<<e>> \o r : e \in ExtraToks, r \in Extras(n - 1)}

Inputs ==
    {Join(SubSeq(f, 1, n)) : f \in SixFields, n \in 1..6}
    \union {Join(f \o e) : f \in LongBases, e \in Extras(MaxParts - 6)}

\* ------------------------------------------------------------------------
\* The values of SwapType
\* ------------------------------------------------------------------------
U64Samples == {Zero64, U64(1), U64(500), WrappingMul(U64(65536), U64(65536)), Max64}

SwapTypes ==
    {BuyAsset(a, m) : a \in U64Samples, m \in U64Samples}
    \union {SellAsset(a, m) : a \in U64Samples, m \in U64Samples}

\* ------------------------------------------------------------------------
\* State
\* ------------------------------------------------------------------------
VARIABLES
    input,     \* the string handed to from_str
    pc,        \* "call" before from_str has run, "returned" after, "value"
               \* for a behaviour of a SwapType value
    result,    \* what from_str returned
    d0,        \* a SwapType value as constructed
    d,         \* the value after the calls of opposite made so far
    flips      \* the number of calls of opposite made so far

vars == <<input, pc, result, d0, d, flips>>

NoResult == [kind |-> "None"]

\* ------------------------------------------------------------------------
\* The parser: one call of from_str on an input string
\* ------------------------------------------------------------------------
Init ==
    /\ input \in Inputs
    /\ pc = "call"
    /\ result = NoResult
    /\ d0 = BuyAsset(Zero64, Zero64)
    /\ d = d0
    /\ flips = 0

Parse ==
    /\ pc = "call"
    /\ \E overflow_checks \in BOOLEAN, odd_tail \in OddTails :
          result' = FromStr(input, overflow_checks, odd_tail)
    /\ pc' = "returned"
    /\ UNCHANGED <<input, d0, d, flips>>

Next == Parse

Spec == Init /\ [][Next]_vars

\* ------------------------------------------------------------------------
\* A SwapType value and the calls of opposite on it
\* ------------------------------------------------------------------------
InitSwapType ==
    /\ input = <<>>
    /\ pc = "value"
    /\ result = NoResult
    /\ d0 \in SwapTypes
    /\ d = d0
    /\ flips = 0

Opposite ==
    /\ pc = "value"
    /\ flips < MaxFlips
    /\ d' = opposite(d)
    /\ flips' = flips + 1
    /\ UNCHANGED <<input, pc, result, d0>>

NextSwapType == Opposite

SpecSwapType == InitSwapType /\ [][NextSwapType]_vars

TypeOK ==
    /\ pc \in {"call", "returned", "value"}
    /\ result.kind \in {"None", "Ok", "Err", "Panic"}
    /\ flips \in 0..MaxFlips

\* ------------------------------------------------------------------------
\* What the input text says, read off the characters
\* ------------------------------------------------------------------------
Returned == pc = "returned"

NumFields == Cardinality({i \in 1..Len(input) : input[i] = "/"}) + 1

Field(n) == Split(input)[n]

UnableToParse == Err("Unable to parse")
WrongParts == Err("Wrong number of parts")
NotPositiveErr == Err("Amount, price and expiry should be positive")
InvalidSwapType == Err("Invalid swap type")

RECURSIVE StripZeros(_)
StripZeros(t) == IF Len(t) > 0 /\ t[1] = "0" THEN StripZeros(Tail(t)) ELSE t

\* the decimal numeral t denotes a value above 2^64 - 1
ExceedsU64(t) ==
    LET z == StripZeros(t)
    IN  \/ Len(z) > Len(MaxU64Text)
        \/ /\ Len(z) = Len(MaxU64Text)
           /\ \E i \in 1..Len(z) :
                /\ DigitVal(z[i]) > DigitVal(MaxU64Text[i])
                /\ \A j \in 1..(i - 1) : z[j] = MaxU64Text[j]

AllDigits(t) == \A i \in 1..Len(t) : t[i] \in Digits

\* empty, some character other than 0-9, or above 2^64 - 1
BadNumeralStrict(t) == t = <<>> \/ ~AllDigits(t) \/ ExceedsU64(t)

Unsigned(t) == IF Len(t) > 0 /\ t[1] = "+" THEN Tail(t) ELSE t

\* as BadNumeralStrict, but one leading '+' before the digits is allowed
BadNumeral(t) == BadNumeralStrict(Unsigned(t))

ZeroNumeral(t) == ~BadNumeral(t) /\ \A i \in 1..Len(Unsigned(t)) : Unsigned(t)[i] = "0"

BadHash(t) == Len(t) # HexDigitsLen \/ \E i \in 1..Len(t) : t[i] \notin HexChars

NumericFields == {1, 4, 5}

OthersDecode ==
    /\ \A n \in NumericFields : ~BadNumeral(Field(n))
    /\ Field(2) \in KnownContractIds
    /\ ~BadHash(Field(6))

SomeZero == \E n \in NumericFields : ZeroNumeral(Field(n))

\* ------------------------------------------------------------------------
\* Claims
\* ------------------------------------------------------------------------

\* C1: from_str is total and never panics: every call returns Ok or Err
\* with one of the four reason strings, also when amount and price are
\* valid u64 values whose product exceeds 2^64 - 1.
C1_TotalNeverPanics ==
    Returned =>
        \/ result.kind = "Ok"
        \/ result \in {WrongParts, UnableToParse, NotPositiveErr, InvalidSwapType}

\* C2: on every Ok result asset_amount is the parsed amount, amt_msat is
\* the exact product amount * price (no wrap-around modulo 2^64), and both
\* are positive.
C2_ExactProduct ==
    (Returned /\ result.kind = "Ok") =>
        LET amount == ParseU64(Field(1)).val
            price  == ParseU64(Field(4)).val
        IN  /\ asset_amount(result.swap_type) = amount
            /\ Widen(amt_msat(result.swap_type)) = FullProduct(amount, price)
            /\ ~IsZero64(asset_amount(result.swap_type))
            /\ ~IsZero64(amt_msat(result.swap_type))

\* C3: an input that splits on '/' into fewer or more than 6 fields gets
\* Err("Wrong number of parts") whatever the fields hold, and no input of
\* exactly 6 fields gets that error.
C3_FieldCount ==
    Returned => (NumFields # 6 <=> result = WrongParts)

C3_Witness ==
    /\ Returned
    /\ NumFields = 7
    /\ input[Len(input)] = "/"
    /\ ~BadNumeral(Field(1))
    /\ result = WrongParts

\* C4: on a 6-field input in which some field fails to decode (a numeric
\* field, the contract id, the payment hash, or an unrecognized side
\* token) the returned error is "Unable to parse" or "Invalid swap type",
\* never the positivity error, even if amount, price or expiry is zero.
C4_SyntacticShadowsDomain ==
    (Returned /\ NumFields = 6 /\ result.kind = "Err"
        /\ (~OthersDecode \/ Field(3) \notin {Buy, Sell}))
    => result \in {UnableToParse, InvalidSwapType}

\* C5: on a 6-field input whose amount, contract id, price, expiry and
\* hash decode, a side other than exactly "buy" or "sell" gives
\* Err("Invalid swap type"); and that error is never given when a numeric,
\* contract id or hash field failed to decode.
C5_InvalidSide ==
    (Returned /\ NumFields = 6) =>
        /\ (OthersDecode /\ Field(3) \notin {Buy, Sell}) => result = InvalidSwapType
        /\ result = InvalidSwapType => OthersDecode

\* C6: on a 6-field input in which every field decodes and amount, price
\* or expiry is 0, the result is the positivity error, which is not
\* "Unable to parse"; every Ok result has expiry > 0.
C6_ZeroRejected ==
    Returned =>
        /\ (NumFields = 6 /\ OthersDecode /\ Field(3) \in {Buy, Sell} /\ SomeZero)
              => (result = NotPositiveErr /\ result # UnableToParse)
        /\ result.kind = "Ok" => ~IsZero64(result.expiry)

C6_Witness ==
    /\ Returned
    /\ NumFields = 6 /\ OthersDecode /\ Field(3) \in {Buy, Sell}
    /\ ZeroNumeral(Field(5)) /\ ~ZeroNumeral(Field(1)) /\ ~ZeroNumeral(Field(4))
    /\ result = NotPositiveErr

\* C7 as stated: on a 6-field input in which amount, price or expiry is
\* empty, has any character other than 0-9 (a leading '-' or '+' included)
\* or is above 2^64 - 1, the result is Err("Unable to parse").
C7_StrictNumerals ==
    (Returned /\ NumFields = 6 /\ \E n \in NumericFields : BadNumeralStrict(Field(n)))
    => result = UnableToParse

\* C7 amended: on a 6-field input in which amount, price or expiry, after
\* one optional leading '+' is removed, is empty, has any character other
\* than 0-9 (a '-', a second sign, whitespace) or is above 2^64 - 1, the
\* result is Err("Unable to parse"), the same for every field.
C7_NumeralsAfterPlus ==
    (Returned /\ NumFields = 6 /\ \E n \in NumericFields : BadNumeral(Field(n)))
    => result = UnableToParse

C7_Witness ==
    /\ Returned
    /\ NumFields = 6
    /\ Field(1) = <<"-", "1">>
    /\ \A n \in {4, 5} : ~BadNumeral(Field(n))
    /\ Field(2) \in KnownContractIds /\ ~BadHash(Field(6)) /\ Field(3) = Buy
    /\ result = UnableToParse

C9_Involution ==
    (pc = "value" /\ flips % 2 = 0) =>
        /\ d.variant = d0.variant
        /\ asset_amount(d) = asset_amount(d0)
        /\ amt_msat(d) = amt_msat(d0)

C9_Witness ==
    /\ pc = "value"
    /\ flips = 2
    /\ d = d0
    /\ ~is_buy(d0)
    /\ asset_amount(d0) # amt_msat(d0)

\* C10: a call of opposite flips is_buy, leaves asset_amount and amt_msat
\* as they are (not exchanged with each other), and changes the Display
\* text between "buy" and "sell".
C10_OppositeFrame ==
    [][/\ is_buy(d') = ~is_buy(d)
       /\ asset_amount(d') = asset_amount(d)
       /\ amt_msat(d') = amt_msat(d)
       /\ Display(d') # Display(d)
       /\ Display(d') = (IF is_buy(d') THEN Buy ELSE Sell)]_vars

C10_Witness ==
    /\ pc = "value"
    /\ flips = 1
    /\ is_buy(d0) /\ ~is_buy(d)
    /\ asset_amount(d) = U64(1) /\ amt_msat(d) = U64(500)
    /\ Display(d) = Sell
====
